---- MODULE Spec2Model ----
(***************************************************************************)
(* Model of the Swedish geoposition converter (src/__init__.py): the       *)
(* SwedishGeoPositionConverter class (projection parameters, Krueger       *)
(* series coefficients, geodeticToGrid, gridToGeodetic), the two module    *)
(* globals that cache converters and the six convenience functions.        *)
(*                                                                         *)
(* Python floats are modelled as fixed-point decimals with 12 fractional   *)
(* digits: a number is a sequence of five limbs in base 10^4, least        *)
(* significant first, <<f3, f2, f1, lo, hi>>, standing for                 *)
(*     hi*10^4 + lo + f1*10^-4 + f2*10^-8 + f3*10^-12.                     *)
(* Limbs 1..4 are in 0..9999; limb 5 is any integer and carries the sign   *)
(* (the value is negative exactly when limb 5 is).  Every decimal literal  *)
(* of the source has at most 12 fractional digits, so it is represented    *)
(* exactly.  Arithmetic truncates to 10^-12.                               *)
(***************************************************************************)
EXTENDS Integers, Sequences, FiniteSets, TLC

Base == 10000

\* The literal hi*10^4 + lo + 0.f1 f2 f3 (each f a group of four digits).
Dec(hi, lo, f1, f2, f3) == <<f3, f2, f1, lo, hi>>

\* The float value of a small non-negative integer literal, such as 15.0.
Num(n) == <<0, 0, 0, n % Base, n \div Base>>

Zero == Num(0)
One == Num(1)
\* The smallest positive number of the representation, 10^-12.
Ulp == <<1, 0, 0, 0, 0>>

IsNeg(x) == x[5] < 0
IsZero(x) == x = Zero

\* The element of a singleton set.  {e(x) : x \in {a}} is the set holding e(a), so
\* The({e(x) : x \in {a}}) is e with x standing for the value of a, as after the
\* assignment x = a.
The(S) == CHOOSE x \in S : TRUE

RECURSIVE Carry(_, _)
\* The limbs cs with the carries of the limbs i.. moved up: every limb but the last
\* ends in 0..9999, the last limb takes what is left.
Carry(cs, i) ==
    IF i = Len(cs) THEN cs
    ELSE Carry([cs EXCEPT ![i] = cs[i] % Base, ![i + 1] = cs[i + 1] + (cs[i] \div Base)],
               i + 1)

\* Carry propagation: limbs 1..4 into 0..9999, limb 5 takes what is left.
Norm(t) == The({<<c[1], c[2], c[3], c[4], c[5]>> : c \in {Carry(t, 1)}})

\* x + y, x - y, -x: exact.
Add(x, y) ==
    The({Norm(<<a[1] + b[1], a[2] + b[2], a[3] + b[3], a[4] + b[4], a[5] + b[5]>>) :
            a \in {x}, b \in {y}})
Sub(x, y) ==
    The({Norm(<<a[1] - b[1], a[2] - b[2], a[3] - b[3], a[4] - b[4], a[5] - b[5]>>) :
            a \in {x}, b \in {y}})
Neg(x) == Sub(Zero, x)
Abs(x) == The({IF IsNeg(a) THEN Neg(a) ELSE a : a \in {x}})
\* y with the sign of x applied: -y when x is negative.
Sign(x, y) == The({IF IsNeg(x) THEN Neg(b) ELSE b : b \in {y}})

\* x < y, x <= y.
Less(x, y) == IsNeg(Sub(x, y))
LessEq(x, y) == ~IsNeg(Sub(y, x))

\* n * x for an integer literal n (such as 2.0*xi or 104.0*e2...): exact.
MulInt(x, n) ==
    The({Norm(<<a[1] * m, a[2] * m, a[3] * m, a[4] * m, a[5] * m>>) : a \in {x}, m \in {n}})

\* The columns of the schoolbook product of the limbs x and y, without the top one.
MulColumns(x, y) ==
    <<x[1] * y[1],
      x[1] * y[2] + x[2] * y[1],
      x[1] * y[3] + x[2] * y[2] + x[3] * y[1],
      x[1] * y[4] + x[2] * y[3] + x[3] * y[2] + x[4] * y[1],
      x[1] * y[5] + x[2] * y[4] + x[3] * y[3] + x[4] * y[2] + x[5] * y[1],
      x[2] * y[5] + x[3] * y[4] + x[4] * y[3] + x[5] * y[2],
      x[3] * y[5] + x[4] * y[4] + x[5] * y[3],
      x[4] * y[5] + x[5] * y[4]>>

\* x * y, truncated downwards to a multiple of 10^-12: the columns of the
\* schoolbook product with their carries, without the three limbs below 10^-12.
Mul(x, y) ==
    The({The({<<c[4], c[5], c[6], c[7], c[8] + Base * (a[5] * b[5])>> :
                c \in {Carry(MulColumns(a, b), 1)}}) : a \in {x}, b \in {y}})

RECURSIVE DivIntLimbs(_, _, _)
\* qr is the pair of the quotient limbs found so far, from the top limb of x down, and
\* the remainder they leave.
DivIntLimbs(x, n, qr) ==
    IF Len(qr[1]) = 5 THEN qr[1]
    ELSE DivIntLimbs(x, n, <<<<(qr[2] * Base + x[5 - Len(qr[1])]) \div n>> \o qr[1],
                             (qr[2] * Base + x[5 - Len(qr[1])]) % n>>)

\* x / n for x >= 0 and an integer 0 < n < 200000, truncated.
DivIntPos(x, n) ==
    The({DivIntLimbs(a, m, <<<<a[5] \div m>>, a[5] % m>>) : a \in {x}, m \in {n}})

\* x / n for an integer literal n (such as n*n/4.0), truncated towards zero.
DivInt(x, n) == The({Sign(a, DivIntPos(Abs(a), n)) : a \in {x}})

(***************************************************************************)
(* Division of two numbers, limb by limb (schoolbook long division).  The  *)
(* divisor is first shifted and scaled so that its top limb is at least    *)
(* Base/2; each quotient limb is then estimated from the two top limbs of  *)
(* the running remainder and corrected by at most three subtractions.      *)
(***************************************************************************)
Norm6(t) == The({<<c[1], c[2], c[3], c[4], c[5], c[6]>> : c \in {Carry(t, 1)}})

TopLimb(b) ==
    IF b[5] # 0 THEN 5 ELSE IF b[4] # 0 THEN 4 ELSE IF b[3] # 0 THEN 3
    ELSE IF b[2] # 0 THEN 2 ELSE 1

ShiftUp(b, s) == <<IF 1 > s THEN b[1 - s] ELSE 0, IF 2 > s THEN b[2 - s] ELSE 0,
                   IF 3 > s THEN b[3 - s] ELSE 0, IF 4 > s THEN b[4 - s] ELSE 0,
                   IF 5 > s THEN b[5 - s] ELSE 0>>

RECURSIVE DivFix(_, _, _)
\* The quotient limb q and remainder r6 = R - q*b with r6 >= 0: raise q while r6 >= b.
DivFix(r6, b, q) ==
    The({IF t[6] < 0 THEN <<q, r6>> ELSE DivFix(t, b, q + 1) :
            t \in {Norm6(<<r6[1] - b[1], r6[2] - b[2], r6[3] - b[3], r6[4] - b[4],
                           r6[5] - b[5], r6[6]>>)}})

\* One step: the remainder r (below b) takes the next dividend limb d.
DivStep(r, d, b) ==
    The({The({DivFix(r6, b, qhat) :
                r6 \in {Norm6(<<d - qhat * b[1], r[1] - qhat * b[2], r[2] - qhat * b[3],
                                r[3] - qhat * b[4], r[4] - qhat * b[5], r[5]>>)}}) :
            qhat \in {(r[5] * Base + r[4]) \div (b[5] + 1)}})

RECURSIVE DivDigits(_, _, _)
\* Long division of the limbs ds, most significant first; rq is the pair of the
\* running remainder and the quotient limbs so far, one for each limb of ds taken.
DivDigits(rq, ds, b) ==
    LET Step(st) == <<SubSeq(st[2], 1, 5), Append(rq[2], st[1])>>
    IN  IF Len(rq[2]) = Len(ds) THEN rq[2]
        ELSE DivDigits(Step(DivStep(rq[1], ds[Len(rq[2]) + 1], b)), ds, b)

\* The last seven quotient limbs qs as a number.
Quotient(qs, m) ==
    <<qs[m], qs[m - 1], qs[m - 2], qs[m - 3], qs[m - 4] + Base * (qs[m - 5] + Base * qs[m - 6])>>

\* The limbs of a*d, most significant first, followed by 3 + s zero limbs.
Dividend(a, d, s) ==
    The({<<an[6], an[5], an[4], an[3], an[2], an[1], 0, 0, 0>> \o [k \in 1..s |-> 0] :
            an \in {Norm6(<<a[1] * d, a[2] * d, a[3] * d, a[4] * d, a[5] * d, 0>>)}})

\* a / bs for the divisor bs = b * Base^s, whose top limb is not 0.
DivShifted(a, bs, s) ==
    The({The({Quotient(qs, Len(qs)) :
                qs \in {DivDigits(<<Zero, <<>>>>, Dividend(a, d, s), MulInt(bs, d))}}) :
            d \in {Base \div (bs[5] + 1)}})

\* a / b for a >= 0 and b > 0, truncated to a multiple of 10^-12.
DivPos(a, b) == The({DivShifted(a, ShiftUp(b, s), s) : s \in {5 - TopLimb(b)}})

\* a / b for b # 0, truncated towards zero.
Div(a, b) ==
    The({The({IF IsNeg(x) = IsNeg(y) THEN q ELSE Neg(q) : q \in {DivPos(Abs(x), Abs(y))}}) :
            x \in {a}, y \in {b}})


(***************************************************************************)
(* The functions of Python's math module that the converter calls.  Each   *)
(* is computed to the precision of the representation by its power series  *)
(* after a reduction of the argument; a series stops at the first term     *)
(* that truncates to zero.                                                 *)
(***************************************************************************)
\* math.pi, and its half and quarter, rounded to 12 digits.
Pi == Dec(0, 3, 1415, 9265, 3590)
HalfPi == Dec(0, 1, 5707, 9632, 6795)
QuarterPi == Dec(0, 0, 7853, 9816, 3397)
\* tan(pi/8)
TanPi8 == Dec(0, 0, 4142, 1356, 2373)

RECURSIVE Series(_, _, _, _)
\* term + term*x2/((n+1)(n+2)) + ..., for term >= 0 and x2 >= 0; with alt the
\* terms are added and subtracted in turn.  ts is the pair of the next term and the
\* sum of the terms before it.
Series(ts, x2, n, alt) ==
    IF IsZero(ts[1]) THEN ts[2]
    ELSE Series(<<DivIntPos(Mul(ts[1], x2), (n + 1) * (n + 2)),
                  IF alt /\ (n \div 2) % 2 = 1 THEN Sub(ts[2], ts[1])
                  ELSE Add(ts[2], ts[1])>>, x2, n + 2, alt)

\* For odd: 1 + x^2/2! + x^4/4! + ..., else |x| + |x|^3/3! + ..., which are cosh
\* and sinh of |x|, or with alt (alternating signs) cos and sin of |x|.
EvenOddSeries(x, odd, alt) ==
    The({Series(<<IF odd THEN One ELSE Abs(x), Zero>>, x2, IF odd THEN 0 ELSE 1, alt) :
            x2 \in {Mul(x, x)}})

RECURSIVE Reduce(_, _)
\* <<r, k>> with x = r + k*(pi/2), |r| <= pi/4 and k counted modulo 4.
Reduce(x, k) ==
    IF Less(QuarterPi, x) THEN Reduce(Sub(x, HalfPi), (k + 1) % 4)
    ELSE IF Less(x, Neg(QuarterPi)) THEN Reduce(Add(x, HalfPi), (k + 3) % 4)
    ELSE <<x, k>>

\* sin(r + k*pi/2) for a reduced argument, |r| <= pi/4: sin r, cos r, -sin r, -cos r.
SinQuadrant(r, k) ==
    The({IF (k >= 2) # (k % 2 = 0 /\ IsNeg(r)) THEN Neg(s) ELSE s :
            s \in {EvenOddSeries(r, k % 2 = 1, TRUE)}})

\* sin(x + j*pi/2)
SinShifted(x, j) ==
    The({The({SinQuadrant(rk[1], (rk[2] + j) % 4) : rk \in {Reduce(a, 0)}}) : a \in {x}})

\* math.sin, math.cos, math.tan
Sin(x) == SinShifted(x, 0)
Cos(x) == SinShifted(x, 1)
Tan(x) == The({Div(Sin(a), Cos(a)) : a \in {x}})

\* math.sinh, math.cosh
Sinh(x) == The({Sign(a, EvenOddSeries(a, FALSE, FALSE)) : a \in {x}})
Cosh(x) == The({EvenOddSeries(a, TRUE, FALSE) : a \in {x}})

RECURSIVE OddSeries(_, _, _, _)
\* p + p*t2/3 + p*t2^2/5 + ..., for 0 <= p < 1 (k counts the terms so far); with
\* alt, added and subtracted in turn.  ps is the triple of the next term, the power
\* p after it and the sum of the terms before it.
OddSeries(ps, t2, k, alt) ==
    IF IsZero(ps[1]) THEN ps[3]
    ELSE OddSeries(<<DivIntPos(ps[2], 2 * k + 3), Mul(ps[2], t2),
                     IF alt /\ k % 2 = 1 THEN Sub(ps[3], ps[1]) ELSE Add(ps[3], ps[1])>>,
                   t2, k + 1, alt)

\* atanh (alt = FALSE) and atan (alt = TRUE) by their series
ArcSeries(x, alt) ==
    The({The({Sign(a, OddSeries(<<Abs(a), Mul(Abs(a), a2), Zero>>, a2, 0, alt)) :
                a2 \in {Mul(a, a)}}) : a \in {x}})

\* math.atanh, for |x| < 1
Atanh(x) == ArcSeries(x, FALSE)

\* atan for 0 <= x <= 1: atan(x) = pi/4 + atan((x-1)/(x+1)) above tan(pi/8).
AtanUnit(x) ==
    The({IF Less(TanPi8, a)
         THEN Add(QuarterPi, ArcSeries(Div(Sub(a, One), Add(a, One)), TRUE))
         ELSE ArcSeries(a, TRUE) : a \in {x}})

\* atan for x >= 0: atan(x) = pi/2 - atan(1/x) above 1.
AtanPos(x) ==
    The({IF Less(One, a) THEN Sub(HalfPi, AtanUnit(Div(One, a))) ELSE AtanUnit(a) :
            a \in {x}})

\* math.atan
Atan(x) == The({Sign(a, AtanPos(Abs(a))) : a \in {x}})

RECURSIVE SqrtIter(_, _)
\* Newton's iteration s <- (s + v/s)/2 until it moves by at most 10^-12.
SqrtIter(v, s) ==
    LET Move(n) == IF LessEq(Abs(Sub(n, s)), Ulp) THEN n ELSE SqrtIter(v, n)
    IN  Move(DivInt(Add(s, Div(v, s)), 2))

\* The square root of v > 0.
Sqrt(v) == The({SqrtIter(a, One) : a \in {v}})

\* math.asin, for |x| < 1: asin(x) = atan(x / sqrt(1 - x^2))
Asin(x) == The({Atan(Div(a, Sqrt(Sub(One, Mul(a, a))))) : a \in {x}})

RECURSIVE Pow(_, _)
\* math.pow(x, n) for a small integer n >= 1
Pow(x, n) == IF n = 1 THEN x ELSE Mul(Pow(x, n - 1), x)


(***************************************************************************)
(* class SwedishGeoPositionConverter.  An object is a record of its        *)
(* attributes; a method that assigns attributes is an operator from the    *)
(* object before to the object after.                                      *)
(***************************************************************************)
\* The attributes as __init__ sets them before the initial calculations.
NewObject ==
    [_initialized |-> FALSE, _axis |-> Zero, _flattening |-> Zero,
     _central_meridian |-> Zero, _lat_of_origin |-> Zero, _scale |-> Zero,
     _false_northing |-> Zero, _false_easting |-> Zero, _a_roof |-> Zero,
     _A |-> Zero, _B |-> Zero, _C |-> Zero, _D |-> Zero,
     _beta1 |-> Zero, _beta2 |-> Zero, _beta3 |-> Zero, _beta4 |-> Zero,
     _delta1 |-> Zero, _delta2 |-> Zero, _delta3 |-> Zero, _delta4 |-> Zero,
     _Astar |-> Zero, _Bstar |-> Zero, _Cstar |-> Zero, _Dstar |-> Zero]

\* A GRS80 preset that sets the axis only and leaves the flattening 0.0.
_grs80AxisOnly(self) == [self EXCEPT !._axis = Dec(637, 8137, 0, 0, 0)]

\* Default parameters for the GRS80 ellipsoid.
_grs80(self) ==
    [self EXCEPT !._axis = Dec(637, 8137, 0, 0, 0),
                 !._flattening = Div(One, Dec(0, 298, 2572, 2210, 1000)),
                 !._lat_of_origin = Zero]

\* Default parameters for the Bessel 1841 ellipsoid.
_bessel(self) ==
    [self EXCEPT !._axis = Dec(637, 7397, 1550, 0, 0),
                 !._flattening = Div(One, Dec(0, 299, 1528, 1280, 0)),
                 !._lat_of_origin = Zero,
                 !._scale = One,
                 !._false_northing = Zero,
                 !._false_easting = Dec(150, 0, 0, 0, 0)]

\* The SWEREF 99 preset with the scale and false easting of the TM projection.
_sweref99AsTM(self) ==
    [self EXCEPT !._axis = Dec(637, 8137, 0, 0, 0),
                 !._flattening = Div(One, Dec(0, 298, 2572, 2210, 1000)),
                 !._lat_of_origin = Zero,
                 !._scale = Dec(0, 0, 9996, 0, 0),
                 !._false_northing = Zero,
                 !._false_easting = Dec(50, 0, 0, 0, 0)]

\* Default parameters for the SWEREF 99 ellipsoid.
_sweref99(self) ==
    [self EXCEPT !._axis = Dec(637, 8137, 0, 0, 0),
                 !._flattening = Div(One, Dec(0, 298, 2572, 2210, 1000)),
                 !._lat_of_origin = Zero,
                 !._scale = One,
                 !._false_northing = Zero,
                 !._false_easting = Dec(15, 0, 0, 0, 0)]

\* The last branches with an else that accepts every remaining name.
_setProjectionOtherAccepting(self, projection) ==
    [self EXCEPT !._axis = Dec(637, 8137, 0, 0, 0),
                 !._flattening = Div(One, Dec(0, 298, 2572, 2210, 1000)),
                 !._central_meridian = Dec(0, 15, 0, 0, 0),
                 !._scale = One,
                 !._initialized = TRUE]

\* The last branches of the if/elif chain: the test projection, and the else.
_setProjectionOther(self, projection) ==
    IF projection = "test_case" THEN
        [self EXCEPT !._axis = Dec(637, 8137, 0, 0, 0),
                     !._flattening = Div(One, Dec(0, 298, 2572, 2210, 1000)),
                     !._central_meridian =
                         Add(Add(Num(13), DivInt(Num(35), 60)),
                             DivInt(Dec(0, 7, 6920, 0, 0), 3600)),
                     !._lat_of_origin = Zero,
                     !._scale = Dec(0, 1, 0, 0254, 0),
                     !._false_northing = Neg(Dec(622, 6307, 8640, 0, 0)),
                     !._false_easting = Dec(8, 4182, 8790, 0, 0),
                     !._initialized = TRUE]
    ELSE [self EXCEPT !._initialized = FALSE]

\* The SWEREF99TM and SWEREF99ddmm branches of the if/elif chain.
_setProjectionSweref(self, projection) ==
    IF projection = "sweref_99_tm" THEN
        [_sweref99(self) EXCEPT !._central_meridian = Dec(0, 15, 0, 0, 0),
                                !._lat_of_origin = Zero,
                                !._scale = Dec(0, 0, 9996, 0, 0),
                                !._false_northing = Zero,
                                !._false_easting = Dec(50, 0, 0, 0, 0),
                                !._initialized = TRUE]
    ELSE IF projection = "sweref_99_1200" THEN
        [_sweref99(self) EXCEPT !._central_meridian = Dec(0, 12, 0000, 0, 0),
                                !._initialized = TRUE]
    ELSE IF projection = "sweref_99_1330" THEN
        [_sweref99(self) EXCEPT !._central_meridian = Dec(0, 13, 5000, 0, 0),
                                !._initialized = TRUE]
    ELSE IF projection = "sweref_99_1500" THEN
        [_sweref99(self) EXCEPT !._central_meridian = Dec(0, 15, 0000, 0, 0),
                                !._initialized = TRUE]
    ELSE IF projection = "sweref_99_1630" THEN
        [_sweref99(self) EXCEPT !._central_meridian = Dec(0, 16, 5000, 0, 0),
                                !._initialized = TRUE]
    ELSE IF projection = "sweref_99_1800" THEN
        [_sweref99(self) EXCEPT !._central_meridian = Dec(0, 18, 0000, 0, 0),
                                !._initialized = TRUE]
    ELSE IF projection = "sweref_99_1415" THEN
        [_sweref99(self) EXCEPT !._central_meridian = Dec(0, 14, 2500, 0, 0),
                                !._initialized = TRUE]
    ELSE IF projection = "sweref_99_1545" THEN
        [_sweref99(self) EXCEPT !._central_meridian = Dec(0, 15, 7500, 0, 0),
                                !._initialized = TRUE]
    ELSE IF projection = "sweref_99_1715" THEN
        [_sweref99(self) EXCEPT !._central_meridian = Dec(0, 17, 2500, 0, 0),
                                !._initialized = TRUE]
    ELSE IF projection = "sweref_99_1845" THEN
        [_sweref99(self) EXCEPT !._central_meridian = Dec(0, 18, 7500, 0, 0),
                                !._initialized = TRUE]
    ELSE IF projection = "sweref_99_2015" THEN
        [_sweref99(self) EXCEPT !._central_meridian = Dec(0, 20, 2500, 0, 0),
                                !._initialized = TRUE]
    ELSE IF projection = "sweref_99_2145" THEN
        [_sweref99(self) EXCEPT !._central_meridian = Dec(0, 21, 7500, 0, 0),
                                !._initialized = TRUE]
    ELSE IF projection = "sweref_99_2315" THEN
        [_sweref99(self) EXCEPT !._central_meridian = Dec(0, 23, 2500, 0, 0),
                                !._initialized = TRUE]
    ELSE _setProjectionOther(self, projection)

\* The chain without its branches for the Bessel 1841 ellipsoid.
_setProjectionSkipBessel(self, projection) == _setProjectionSweref(self, projection)

\* The branches of the if/elif chain for RT90 on the Bessel 1841 ellipsoid.
_setProjectionBessel(self, projection) ==
    IF projection = "bessel_rt90_7.5_gon_v" THEN
        [_bessel(self) EXCEPT !._central_meridian =
                                  Add(Add(Num(11), DivInt(Num(18), 60)),
                                      DivInt(Dec(0, 29, 8000, 0, 0), 3600)),
                              !._initialized = TRUE]
    ELSE IF projection = "bessel_rt90_5.0_gon_v" THEN
        [_bessel(self) EXCEPT !._central_meridian =
                                  Add(Add(Num(13), DivInt(Num(33), 60)),
                                      DivInt(Dec(0, 29, 8000, 0, 0), 3600)),
                              !._initialized = TRUE]
    ELSE IF projection = "bessel_rt90_2.5_gon_v" THEN
        [_bessel(self) EXCEPT !._central_meridian =
                                  Add(Add(Num(15), DivInt(Num(48), 60)),
                                      DivInt(Dec(0, 29, 8000, 0, 0), 3600)),
                              !._initialized = TRUE]
    ELSE IF projection = "bessel_rt90_0.0_gon_v" THEN
        [_bessel(self) EXCEPT !._central_meridian =
                                  Add(Add(Num(18), DivInt(Num(3), 60)),
                                      DivInt(Dec(0, 29, 8000, 0, 0), 3600)),
                              !._initialized = TRUE]
    ELSE IF projection = "bessel_rt90_2.5_gon_o" THEN
        [_bessel(self) EXCEPT !._central_meridian =
                                  Add(Add(Num(20), DivInt(Num(18), 60)),
                                      DivInt(Dec(0, 29, 8000, 0, 0), 3600)),
                              !._initialized = TRUE]
    ELSE IF projection = "bessel_rt90_5.0_gon_o" THEN
        [_bessel(self) EXCEPT !._central_meridian =
                                  Add(Add(Num(22), DivInt(Num(33), 60)),
                                      DivInt(Dec(0, 29, 8000, 0, 0), 3600)),
                              !._initialized = TRUE]
    ELSE _setProjectionSweref(self, projection)

\* The if/elif chain on the projection string (Python's == on strings is exact);
\* its first branches are RT90 on the GRS 80 ellipsoid.
_setProjection(self, projection) ==
    IF projection = "rt90_7.5_gon_v" THEN
        [_grs80(self) EXCEPT !._central_meridian = Add(Num(11), DivInt(Dec(0, 18, 3750, 0, 0), 60)),
                             !._scale = Dec(0, 1, 0, 0600, 0),
                             !._false_northing = Neg(Dec(0, 667, 2820, 0, 0)),
                             !._false_easting = Dec(150, 0025, 1410, 0, 0),
                             !._initialized = TRUE]
    ELSE IF projection = "rt90_5.0_gon_v" THEN
        [_grs80(self) EXCEPT !._central_meridian = Add(Num(13), DivInt(Dec(0, 33, 3760, 0, 0), 60)),
                             !._scale = Dec(0, 1, 0, 0580, 0),
                             !._false_northing = Neg(Dec(0, 667, 1300, 0, 0)),
                             !._false_easting = Dec(150, 0044, 6950, 0, 0),
                             !._initialized = TRUE]
    ELSE IF projection = "rt90_2.5_gon_v" THEN
        [_grs80(self) EXCEPT !._central_meridian = Add(Add(Num(15), DivInt(Num(48), 60)), DivInt(Dec(0, 22, 6243, 0600, 0), 3600)),
                             !._scale = Dec(0, 1, 0, 0561, 0240),
                             !._false_northing = Neg(Dec(0, 667, 7110, 0, 0)),
                             !._false_easting = Dec(150, 0064, 2740, 0, 0),
                             !._initialized = TRUE]
    ELSE IF projection = "rt90_0.0_gon_v" THEN
        [_grs80(self) EXCEPT !._central_meridian = Add(Num(18), DivInt(Dec(0, 3, 3780, 0, 0), 60)),
                             !._scale = Dec(0, 1, 0, 0540, 0),
                             !._false_northing = Neg(Dec(0, 668, 8440, 0, 0)),
                             !._false_easting = Dec(150, 0083, 5210, 0, 0),
                             !._initialized = TRUE]
    ELSE IF projection = "rt90_2.5_gon_o" THEN
        [_grs80(self) EXCEPT !._central_meridian = Add(Num(20), DivInt(Dec(0, 18, 3790, 0, 0), 60)),
                             !._scale = Dec(0, 1, 0, 0520, 0),
                             !._false_northing = Neg(Dec(0, 670, 7060, 0, 0)),
                             !._false_easting = Dec(150, 0102, 7650, 0, 0),
                             !._initialized = TRUE]
    ELSE IF projection = "rt90_5.0_gon_o" THEN
        [_grs80(self) EXCEPT !._central_meridian = Add(Num(22), DivInt(Dec(0, 33, 3800, 0, 0), 60)),
                             !._scale = Dec(0, 1, 0, 0490, 0),
                             !._false_northing = Neg(Dec(0, 672, 5570, 0, 0)),
                             !._false_easting = Dec(150, 0121, 8460, 0, 0),
                             !._initialized = TRUE]
    ELSE _setProjectionBessel(self, projection)

RECURSIVE Prod(_, _, _)
\* c*x*x*...*x with k factors x, multiplied from the left as Python does.
Prod(c, x, k) == IF k = 1 THEN MulInt(x, c) ELSE Mul(Prod(c, x, k - 1), x)

\* Prepare calculations only related to the chosen ellipsoid.
_prepareEllipsoid(self) ==
    LET Coefficients(e2, n) ==
        [self EXCEPT
          !._a_roof = Mul(Div(self._axis, Add(One, n)),
                          Add(Add(One, DivInt(Pow(n, 2), 4)), DivInt(Pow(n, 4), 64))),
          !._A = e2,
          !._B = DivInt(Sub(Prod(5, e2, 2), Pow(e2, 3)), 6),
          !._C = DivInt(Sub(Prod(104, e2, 3), Prod(45, e2, 4)), 120),
          !._D = DivInt(Prod(1237, e2, 4), 1260),
          !._beta1 = Add(Add(Sub(DivInt(n, 2), DivInt(Prod(2, n, 2), 3)),
                             DivInt(Prod(5, n, 3), 16)), DivInt(Prod(41, n, 4), 180)),
          !._beta2 = Add(Sub(DivInt(Prod(13, n, 2), 48), DivInt(Prod(3, n, 3), 5)),
                         DivInt(Prod(557, n, 4), 1440)),
          !._beta3 = Sub(DivInt(Prod(61, n, 3), 240), DivInt(Prod(103, n, 4), 140)),
          !._beta4 = DivInt(Prod(49561, n, 4), 161280),
          !._delta1 = Sub(Add(Sub(DivInt(n, 2), DivInt(Prod(2, n, 2), 3)),
                              DivInt(Prod(37, n, 3), 96)), DivInt(Pow(n, 4), 360)),
          !._delta2 = Sub(Add(DivInt(Pow(n, 2), 48), DivInt(Pow(n, 3), 15)),
                          DivInt(Prod(437, n, 4), 1440)),
          !._delta3 = Sub(DivInt(Prod(17, n, 3), 480), DivInt(Prod(37, n, 4), 840)),
          !._delta4 = DivInt(Prod(4397, n, 4), 161280),
          !._Astar = Add(Add(Add(e2, Pow(e2, 2)), Pow(e2, 3)), Pow(e2, 4)),
          !._Bstar = DivInt(Neg(Add(Add(Prod(7, e2, 2), Prod(17, e2, 3)),
                                    Prod(30, e2, 4))), 6),
          !._Cstar = DivInt(Add(Prod(224, e2, 3), Prod(889, e2, 4)), 120),
          !._Dstar = DivInt(Neg(Prod(4279, e2, 4)), 1260)]
    IN  IF self._initialized = FALSE THEN self
        ELSE The({Coefficients(e2, n) :
                    e2 \in {Mul(self._flattening, Sub(Num(2), self._flattening))},
                    n \in {Div(self._flattening, Sub(Num(2), self._flattening))}})

\* A constructor that takes sweref_99_1330 for sweref_99_1500.
__init__Confused(projection) ==
    The({_prepareEllipsoid(self) :
            self \in {_setProjection(NewObject, IF projection = "sweref_99_1330"
                                                THEN "sweref_99_1500" ELSE projection)}})

\* SwedishGeoPositionConverter(projection): the object the constructor returns.
__init__(projection) ==
    The({_prepareEllipsoid(self) : self \in {_setProjection(NewObject, projection)}})


\* Python's None.  A result is None, a pair <<a, b>> of numbers, or <<"E">> for a raised
\* exception E; a reference is None or <<o>> for the object o.
None == <<>>

\* A term of the two series, as in self._beta2 * math.sin(4.0*xi_prim) * math.cosh(4.0*eta_prim)
\* (k = 2) and its counterpart with cos and sinh.
SinCosh(c, k, u, w) == Mul(Mul(c, Sin(MulInt(u, 2 * k))), Cosh(MulInt(w, 2 * k)))
CosSinh(c, k, u, w) == Mul(Mul(c, Cos(MulInt(u, 2 * k))), Sinh(MulInt(w, 2 * k)))

RECURSIVE SumSinCosh(_, _, _, _)
RECURSIVE SumCosSinh(_, _, _, _)
\* The terms 1..k of a series with the coefficients coef[1..k].
SumSinCosh(coef, k, u, w) ==
    IF k = 0 THEN Zero ELSE Add(SumSinCosh(coef, k - 1, u, w), SinCosh(coef[k], k, u, w))
SumCosSinh(coef, k, u, w) ==
    IF k = 0 THEN Zero ELSE Add(SumCosSinh(coef, k - 1, u, w), CosSinh(coef[k], k, u, w))

\* math.sin(phi) * math.cos(phi) * (a + b*pow(sin(phi), 2) + c*pow(sin(phi), 4) + d*pow(sin(phi), 6)),
\* the latitude correction of both directions.
LatCorrection(phi, a, b, c, d) ==
    LET Poly(sinphi) ==
            Mul(Mul(sinphi, Cos(phi)),
                Add(Add(Add(a, Mul(b, Pow(sinphi, 2))), Mul(c, Pow(sinphi, 4))),
                    Mul(d, Pow(sinphi, 6))))
    IN  The({Poly(sinphi) : sinphi \in {Sin(phi)}})

\* north and east from xi_prim and eta_prim.
geodeticToGridSeries(self, xi_prim, eta_prim) ==
    <<Add(Mul(Mul(self._scale, self._a_roof),
              Add(xi_prim,
                  SumSinCosh(<<self._beta1, self._beta2, self._beta3, self._beta4>>, 4,
                             xi_prim, eta_prim))),
          self._false_northing),
      Add(Mul(Mul(self._scale, self._a_roof),
              Add(eta_prim,
                  SumCosSinh(<<self._beta1, self._beta2, self._beta3, self._beta4>>, 4,
                             xi_prim, eta_prim))),
          self._false_easting)>>

\* xi_prim and eta_prim from phi_star and delta_lambda, then north and east.
geodeticToGridConformal(self, phi_star, delta_lambda) ==
    The({geodeticToGridSeries(self, xi_prim, eta_prim) :
            xi_prim \in {Atan(Div(Tan(phi_star), Cos(delta_lambda)))},
            eta_prim \in {Atanh(Mul(Cos(phi_star), Sin(delta_lambda)))}})

\* phi_star and delta_lambda from the angles in radians, then the rest.
geodeticToGridRadians(self, phi, lambda_long, lambda_zero) ==
    The({geodeticToGridConformal(self, phi_star, delta_lambda) :
            phi_star \in {Sub(phi, LatCorrection(phi, self._A, self._B, self._C, self._D))},
            delta_lambda \in {Sub(lambda_long, lambda_zero)}})

\* The body of geodeticToGrid after the guard: <<north, east>>.
geodeticToGridPair(self, latitude, longitude) ==
    The({geodeticToGridRadians(self, phi, lambda_long, lambda_zero) :
            phi \in {Mul(latitude, DivInt(Pi, 180))},
            lambda_long \in {Mul(longitude, DivInt(Pi, 180))},
            lambda_zero \in {Mul(self._central_meridian, DivInt(Pi, 180))}})

\* Transformation from geodetic coordinates to grid coordinates.
geodeticToGridBody(self, latitude, longitude) ==
    IF self._initialized = FALSE THEN None
    ELSE geodeticToGridPair(self, latitude, longitude)

\* lat and lon in degrees without the series in sin(phi_star) that turns the
\* conformal latitude into the geodetic one.
gridToGeodeticDegreesConformalOnly(self, phi_star, delta_lambda) ==
    <<Div(MulInt(phi_star, 180), Pi),
      Div(MulInt(Add(Mul(self._central_meridian, DivInt(Pi, 180)), delta_lambda), 180), Pi)>>

\* lat and lon in degrees from phi_star and delta_lambda.
gridToGeodeticDegrees(self, phi_star, delta_lambda) ==
    <<Div(MulInt(Add(phi_star,
                     LatCorrection(phi_star, self._Astar, self._Bstar,
                                   self._Cstar, self._Dstar)), 180), Pi),
      Div(MulInt(Add(Mul(self._central_meridian, DivInt(Pi, 180)), delta_lambda), 180), Pi)>>

\* phi_star and delta_lambda from xi_prim and eta_prim, then the rest.
gridToGeodeticConformal(self, xi_prim, eta_prim) ==
    The({gridToGeodeticDegrees(self, phi_star, delta_lambda) :
            phi_star \in {Asin(Div(Sin(xi_prim), Cosh(eta_prim)))},
            delta_lambda \in {Atan(Div(Sinh(eta_prim), Cos(xi_prim)))}})

\* xi_prim and eta_prim from xi and eta, then the rest.
gridToGeodeticSeries(self, xi, eta) ==
    The({gridToGeodeticConformal(self, xi_prim, eta_prim) :
            xi_prim \in {Sub(xi, SumSinCosh(<<self._delta1, self._delta2, self._delta3,
                                              self._delta4>>, 4, xi, eta))},
            eta_prim \in {Sub(eta, SumCosSinh(<<self._delta1, self._delta2, self._delta3,
                                                self._delta4>>, 4, xi, eta))}})

\* The body of gridToGeodetic after the guard: <<lat, lon>>, or the
\* ZeroDivisionError of the division by self._scale * self._a_roof when that is 0.0.
gridToGeodeticPair(self, north, east) ==
    IF IsZero(Mul(self._scale, self._a_roof)) THEN <<"ZeroDivisionError">>
    ELSE The({gridToGeodeticSeries(self, xi, eta) :
                xi \in {Div(Sub(north, self._false_northing),
                            Mul(self._scale, self._a_roof))},
                eta \in {Div(Sub(east, self._false_easting),
                             Mul(self._scale, self._a_roof))}})

\* gridToGeodetic without its guard on self._initialized.
gridToGeodeticUnguarded(self, north, east) == gridToGeodeticPair(self, north, east)

\* Transformation from grid coordinates to geodetic coordinates.
gridToGeodeticBody(self, north, east) ==
    IF self._initialized = FALSE THEN None
    ELSE gridToGeodeticPair(self, north, east)


\* A geodeticToGrid that clears the flag of the object it is called on.
geodeticToGridSelfCleared(self, latitude, longitude) == [self EXCEPT !._initialized = FALSE]

\* What the methods assign to the attributes of self: nothing (lines 149-222
\* hold no assignment to an attribute), so the object after a call is self.
geodeticToGridSelf(self, latitude, longitude) == self
gridToGeodeticSelf(self, north, east) == self

(***************************************************************************)
(* The inputs the callers draw from.                                       *)
(***************************************************************************)
\* The projection names of the spec's enumerated set.
EnumeratedNames ==
    {"rt90_7.5_gon_v", "rt90_5.0_gon_v", "rt90_2.5_gon_v", "rt90_0.0_gon_v",
     "rt90_2.5_gon_o", "rt90_5.0_gon_o",
     "bessel_rt90_7.5_gon_v", "bessel_rt90_5.0_gon_v", "bessel_rt90_2.5_gon_v",
     "bessel_rt90_0.0_gon_v", "bessel_rt90_2.5_gon_o", "bessel_rt90_5.0_gon_o",
     "sweref_99_tm", "sweref_99_1200", "sweref_99_1330", "sweref_99_1500",
     "sweref_99_1630", "sweref_99_1800", "sweref_99_1415", "sweref_99_1545",
     "sweref_99_1715", "sweref_99_1845", "sweref_99_2015", "sweref_99_2145",
     "sweref_99_2315", "test_case"}

\* Other strings a caller may pass: an unrelated name, names that differ from an
\* enumerated one in case or in whitespace only, a near miss, the empty string.
OtherNames ==
    {"not_a_projection", "SWEREF_99_TM", "Sweref_99_tm", "sweref_99_tm ",
     " rt90_2.5_gon_v", "RT90_2.5_GON_V", "sweref_99_1201", "sweref99tm", ""}

ProjectionInputs == EnumeratedNames \cup OtherNames

\* The geodetic sample points: latitude 55..69 and longitude 10..24 degrees, both
\* ends included, in Steps equal steps each.
Steps == 2
GeoInputs ==
    {<<Add(Num(55), DivInt(Num(14 * i), Steps)), Add(Num(10), DivInt(Num(14 * j), Steps))>> :
        i \in 0..Steps, j \in 0..Steps}

\* Grid coordinates given as such: (6500000.0, 1500000.0) and (7000000.5, 600000.25).
FixedGridInputs ==
    {<<Dec(650, 0, 0, 0, 0), Dec(150, 0, 0, 0, 0)>>,
     <<Dec(700, 0, 5000, 0, 0), Dec(60, 0, 2500, 0, 0)>>}

(***************************************************************************)
(* The constructor and the two methods are pure functions of their         *)
(* arguments.  Their values on the inputs above are tabulated once; a call *)
(* looks its value up.                                                     *)
(***************************************************************************)
\* The function f with all its values computed (f @@ g is f extended by g).
Tabulated(f) == f @@ <<>>

ConverterTable == Tabulated([p \in ProjectionInputs |-> __init__(p)])

\* SwedishGeoPositionConverter(projection)
SwedishGeoPositionConverter(projection) == ConverterTable[projection]

\* The objects a caller can hold.
Objects == {ConverterTable[p] : p \in ProjectionInputs}

\* geodeticToGrid on the sample points.
geodeticToGridTable1 ==
    Tabulated([c \in Objects \X GeoInputs |-> geodeticToGridBody(c[1], c[2][1], c[2][2])])

\* The grid coordinates a caller passes to gridToGeodetic of self: the given ones
\* and every pair that geodeticToGrid of self returned for a sample point.
GridInputsOf(self, table) ==
    FixedGridInputs \cup {table[c] : c \in {d \in {self} \X GeoInputs : d[1]._initialized}}

GridInputs(self) == GridInputsOf(self, geodeticToGridTable1)

gridToGeodeticTable ==
    The({Tabulated([c \in UNION {{d[1]} \X GridInputsOf(d[1], table) : d \in DOMAIN table} |->
                        gridToGeodeticBody(c[1], c[2][1], c[2][2])]) :
            table \in {geodeticToGridTable1}})

\* self.gridToGeodetic(north, east)
gridToGeodetic(self, north, east) == gridToGeodeticTable[<<self, <<north, east>>>>]

\* geodeticToGrid on the sample points and on the geodetic pairs that the two composed
\* convenience functions pass on: what gridToGeodetic of one cached converter returns,
\* for geodeticToGrid of the other.
geodeticToGridTable ==
    The({table @@ [c \in {<<converters[p[2]], gridToGeodetic(converters[p[1]], g[1], g[2])>> :
                            p \in {<<"rt90_2.5_gon_v", "sweref_99_tm">>,
                                   <<"sweref_99_tm", "rt90_2.5_gon_v">>},
                            g \in FixedGridInputs} |->
                        geodeticToGridBody(c[1], c[2][1], c[2][2])] :
            table \in {geodeticToGridTable1}, converters \in {ConverterTable}})

\* self.geodeticToGrid(latitude, longitude)
geodeticToGrid(self, latitude, longitude) == geodeticToGridTable[<<self, <<latitude, longitude>>>>]

(***************************************************************************)
(* The six convenience functions.  G is the pair of module globals; the    *)
(* result holds the globals after the call and what the call returns.  A   *)
(* global is None or <<o>>, a reference to the converter object o.         *)
(***************************************************************************)
\* rt90_converter after "if (rt90_converter == None): rt90_converter = ...".
EnsureRt90(G) ==
    IF G.rt90_converter = None THEN <<SwedishGeoPositionConverter("rt90_2.5_gon_v")>>
    ELSE G.rt90_converter

\* sweref99tm_converter after "if (sweref99tm_converter == None): ...".
EnsureSweref99tm(G) ==
    IF G.sweref99tm_converter = None THEN <<SwedishGeoPositionConverter("sweref_99_tm")>>
    ELSE G.sweref99tm_converter

\* "lat, long = a.gridToGeodetic(x, y); return b.geodeticToGrid(lat, long)":
\* unpacking anything but a pair raises TypeError.
ThenGeodeticToGrid(b, latlong) ==
    The({IF Len(ll) = 2 THEN geodeticToGrid(b, ll[1], ll[2]) ELSE <<"TypeError">> :
            ll \in {latlong}})

\* Converts from RT 90 2.5 gon V to SWEREF 99 TM.
rt90_to_sweref99tm(G, x, y) ==
    The({[rt90_converter |-> <<gridToGeodeticSelf(r[1], x, y)>>,
          sweref99tm_converter |-> s,
          ret |-> ThenGeodeticToGrid(s[1], gridToGeodetic(r[1], x, y))] :
            r \in {EnsureRt90(G)}, s \in {EnsureSweref99tm(G)}})

\* Converts from SWEREF 99 TM to RT 90 2.5 gon V.
sweref99tm_to_rt90(G, n, e) ==
    The({[rt90_converter |-> r,
          sweref99tm_converter |-> <<gridToGeodeticSelf(s[1], n, e)>>,
          ret |-> ThenGeodeticToGrid(r[1], gridToGeodetic(s[1], n, e))] :
            r \in {EnsureRt90(G)}, s \in {EnsureSweref99tm(G)}})

\* A wgs84_to_rt90 that creates both converters.
wgs84_to_rt90CreatingBoth(G, lat, long) ==
    The({[rt90_converter |-> r,
          sweref99tm_converter |-> EnsureSweref99tm(G),
          ret |-> geodeticToGrid(r[1], lat, long)] : r \in {EnsureRt90(G)}})

\* Converts from WGS 84 to RT 90 2.5 gon V.
wgs84_to_rt90(G, lat, long) ==
    The({[rt90_converter |-> <<geodeticToGridSelf(r[1], lat, long)>>,
          sweref99tm_converter |-> G.sweref99tm_converter,
          ret |-> geodeticToGrid(r[1], lat, long)] : r \in {EnsureRt90(G)}})

\* Converts from RT 90 2.5 gon V to WGS 84.
rt90_to_wgs84(G, x, y) ==
    The({[rt90_converter |-> <<gridToGeodeticSelf(r[1], x, y)>>,
          sweref99tm_converter |-> G.sweref99tm_converter,
          ret |-> gridToGeodetic(r[1], x, y)] : r \in {EnsureRt90(G)}})

\* wgs84_to_sweref99tm through the RT90 converter.
wgs84_to_sweref99tmViaRt90(G, lat, long) ==
    The({[rt90_converter |-> r,
          sweref99tm_converter |-> G.sweref99tm_converter,
          ret |-> geodeticToGrid(r[1], lat, long)] : r \in {EnsureRt90(G)}})

\* Converts from WGS 84 to SWEREF 99 TM.
wgs84_to_sweref99tm(G, lat, long) ==
    The({[rt90_converter |-> G.rt90_converter,
          sweref99tm_converter |-> <<geodeticToGridSelf(s[1], lat, long)>>,
          ret |-> geodeticToGrid(s[1], lat, long)] : s \in {EnsureSweref99tm(G)}})

\* Converts from SWEREF 99 TM to WGS 84.
sweref99tm_to_wgs84(G, n, e) ==
    The({[rt90_converter |-> G.rt90_converter,
          sweref99tm_converter |-> <<gridToGeodeticSelf(s[1], n, e)>>,
          ret |-> gridToGeodetic(s[1], n, e)] : s \in {EnsureSweref99tm(G)}})

(***************************************************************************)
(* The state: a caller's transformer, the module globals, the last call,   *)
(* and the threads that call the convenience functions.                    *)
(***************************************************************************)
VARIABLES
    conv,                  \* the caller's transformer: None, or <<o>> for the object o
    projectionName,        \* the string the caller constructed conv from
    rt90_converter,        \* the module global: None or <<o>>
    sweref99tm_converter,  \* the module global: None or <<o>>
    last,                  \* the last call: [op, args, ret]
    threads,               \* per thread: the function it is in and its position there
    constructed            \* per global: the converters constructed and assigned to it

vars == <<conv, projectionName, rt90_converter, sweref99tm_converter, last,
          threads, constructed>>

\* The threads that call the convenience functions concurrently.
NumThreads == 2
Threads == 1..NumThreads

\* A thread outside the convenience functions.
Idle == [pc |-> "idle", fn |-> "none"]

Globals == [rt90_converter |-> rt90_converter, sweref99tm_converter |-> sweref99tm_converter]

Init ==
    /\ conv = None
    /\ projectionName = ""
    /\ rt90_converter = None
    /\ sweref99tm_converter = None
    /\ last = [op |-> "none", args |-> <<>>, ret |-> None]
    /\ threads = [t \in Threads |-> Idle]
    /\ constructed = [rt90_converter |-> 0, sweref99tm_converter |-> 0]

\* conv = SwedishGeoPositionConverter(p)
Construct(p) ==
    /\ conv' = <<SwedishGeoPositionConverter(p)>>
    /\ projectionName' = p
    /\ last' = [op |-> "__init__", args |-> <<p>>, ret |-> None]
    /\ UNCHANGED <<rt90_converter, sweref99tm_converter, threads, constructed>>

\* conv.geodeticToGrid(pt[1], pt[2])
GeodeticToGrid(pt) ==
    /\ conv # None
    /\ last' = [op |-> "geodeticToGrid", args |-> pt,
                ret |-> geodeticToGrid(conv[1], pt[1], pt[2])]
    /\ conv' = <<geodeticToGridSelf(conv[1], pt[1], pt[2])>>
    /\ UNCHANGED <<projectionName, rt90_converter, sweref99tm_converter, threads, constructed>>

\* conv.gridToGeodetic(g[1], g[2])
GridToGeodetic(g) ==
    /\ conv # None
    /\ last' = [op |-> "gridToGeodetic", args |-> g,
                ret |-> gridToGeodetic(conv[1], g[1], g[2])]
    /\ conv' = <<gridToGeodeticSelf(conv[1], g[1], g[2])>>
    /\ UNCHANGED <<projectionName, rt90_converter, sweref99tm_converter, threads, constructed>>

\* A call of a convenience function, with the globals and result R it leaves.
Convenience(name, args, R) ==
    /\ UNCHANGED <<conv, projectionName, threads, constructed>>
    /\ \E res \in {R} :
        /\ rt90_converter' = res.rt90_converter
        /\ sweref99tm_converter' = res.sweref99tm_converter
        /\ last' = [op |-> name, args |-> args, ret |-> res.ret]

Rt90ToSweref99tm(g) == Convenience("rt90_to_sweref99tm", g, rt90_to_sweref99tm(Globals, g[1], g[2]))
Sweref99tmToRt90(g) == Convenience("sweref99tm_to_rt90", g, sweref99tm_to_rt90(Globals, g[1], g[2]))
Wgs84ToRt90(pt) == Convenience("wgs84_to_rt90", pt, wgs84_to_rt90(Globals, pt[1], pt[2]))
Rt90ToWgs84(g) == Convenience("rt90_to_wgs84", g, rt90_to_wgs84(Globals, g[1], g[2]))
Wgs84ToSweref99tm(pt) == Convenience("wgs84_to_sweref99tm", pt, wgs84_to_sweref99tm(Globals, pt[1], pt[2]))
Sweref99tmToWgs84(g) == Convenience("sweref99tm_to_wgs84", g, sweref99tm_to_wgs84(Globals, g[1], g[2]))

Next ==
    \/ /\ \E p \in ProjectionInputs : Construct(p)
    \/ /\ \E pt \in GeoInputs : GeodeticToGrid(pt)
    \/ /\ \E g \in GridInputs(IF conv = None THEN NewObject ELSE conv[1]) : GridToGeodetic(g)
    \/ /\ \E g \in FixedGridInputs : Rt90ToSweref99tm(g)
    \/ /\ \E g \in FixedGridInputs : Sweref99tmToRt90(g)
    \/ /\ \E pt \in GeoInputs : Wgs84ToRt90(pt)
    \/ /\ \E g \in FixedGridInputs : Rt90ToWgs84(g)
    \/ /\ \E pt \in GeoInputs : Wgs84ToSweref99tm(pt)
    \/ /\ \E g \in FixedGridInputs : Sweref99tmToWgs84(g)

Spec == Init /\ [][Next]_vars

(***************************************************************************)
(* The convenience functions called from several threads.  A thread can be *)
(* suspended between any two statements, so the test of a global against   *)
(* None and the assignment that follows it are separate steps.             *)
(***************************************************************************)
\* The functions that begin with "if (rt90_converter == None)", and those that
\* hold "if (sweref99tm_converter == None)".
UsesRt90 == {"rt90_to_sweref99tm", "sweref99tm_to_rt90", "wgs84_to_rt90", "rt90_to_wgs84"}
UsesSweref99tm ==
    {"rt90_to_sweref99tm", "sweref99tm_to_rt90", "wgs84_to_sweref99tm", "sweref99tm_to_wgs84"}

\* Where function f goes on after the statements on rt90_converter.
AfterRt90(f) == IF f \in UsesSweref99tm THEN "check_sweref99tm" ELSE "call"

\* Thread t enters function f.
Call(t, f) ==
    /\ threads[t] = Idle
    /\ threads' = [threads EXCEPT ![t] =
                      [pc |-> IF f \in UsesRt90 THEN "check_rt90" ELSE "check_sweref99tm",
                       fn |-> f]]
    /\ UNCHANGED <<conv, projectionName, rt90_converter, sweref99tm_converter, last,
                   constructed>>

\* if (rt90_converter == None):
CheckRt90(t) ==
    /\ threads[t].pc = "check_rt90"
    /\ threads' = [threads EXCEPT ![t].pc =
                      IF rt90_converter = None THEN "new_rt90" ELSE AfterRt90(threads[t].fn)]
    /\ UNCHANGED <<conv, projectionName, rt90_converter, sweref99tm_converter, last,
                   constructed>>

\* rt90_converter = SwedishGeoPositionConverter("rt90_2.5_gon_v")
NewRt90(t) ==
    /\ threads[t].pc = "new_rt90"
    /\ rt90_converter' = <<SwedishGeoPositionConverter("rt90_2.5_gon_v")>>
    /\ constructed' = [constructed EXCEPT !.rt90_converter = @ + 1]
    /\ threads' = [threads EXCEPT ![t].pc = AfterRt90(threads[t].fn)]
    /\ UNCHANGED <<conv, projectionName, sweref99tm_converter, last>>

\* if (sweref99tm_converter == None):
CheckSweref99tm(t) ==
    /\ threads[t].pc = "check_sweref99tm"
    /\ threads' = [threads EXCEPT ![t].pc =
                      IF sweref99tm_converter = None THEN "new_sweref99tm" ELSE "call"]
    /\ UNCHANGED <<conv, projectionName, rt90_converter, sweref99tm_converter, last,
                   constructed>>

\* sweref99tm_converter = SwedishGeoPositionConverter("sweref_99_tm")
NewSweref99tm(t) ==
    /\ threads[t].pc = "new_sweref99tm"
    /\ sweref99tm_converter' = <<SwedishGeoPositionConverter("sweref_99_tm")>>
    /\ constructed' = [constructed EXCEPT !.sweref99tm_converter = @ + 1]
    /\ threads' = [threads EXCEPT ![t].pc = "call"]
    /\ UNCHANGED <<conv, projectionName, rt90_converter, last>>

\* The calls of the primitives on the globals and the return of their result R.ret,
\* by the thread that is at the end of the function name.
Return(t, name, args, R) ==
    /\ threads[t] = [pc |-> "call", fn |-> name]
    /\ \E res \in {R} : last' = [op |-> name, args |-> args, ret |-> res.ret]
    /\ threads' = [threads EXCEPT ![t] = Idle]
    /\ UNCHANGED <<conv, projectionName, rt90_converter, sweref99tm_converter, constructed>>

Functions == UsesRt90 \cup UsesSweref99tm

NextThreads ==
    \/ /\ \E t \in Threads, f \in Functions : Call(t, f)
    \/ /\ \E t \in Threads : CheckRt90(t)
    \/ /\ \E t \in Threads : NewRt90(t)
    \/ /\ \E t \in Threads : CheckSweref99tm(t)
    \/ /\ \E t \in Threads : NewSweref99tm(t)
    \/ /\ \E t \in Threads, g \in FixedGridInputs :
            Return(t, "rt90_to_sweref99tm", g, rt90_to_sweref99tm(Globals, g[1], g[2]))
    \/ /\ \E t \in Threads, g \in FixedGridInputs :
            Return(t, "sweref99tm_to_rt90", g, sweref99tm_to_rt90(Globals, g[1], g[2]))
    \/ /\ \E t \in Threads, pt \in GeoInputs :
            Return(t, "wgs84_to_rt90", pt, wgs84_to_rt90(Globals, pt[1], pt[2]))
    \/ /\ \E t \in Threads, g \in FixedGridInputs :
            Return(t, "rt90_to_wgs84", g, rt90_to_wgs84(Globals, g[1], g[2]))
    \/ /\ \E t \in Threads, pt \in GeoInputs :
            Return(t, "wgs84_to_sweref99tm", pt, wgs84_to_sweref99tm(Globals, pt[1], pt[2]))
    \/ /\ \E t \in Threads, g \in FixedGridInputs :
            Return(t, "sweref99tm_to_wgs84", g, sweref99tm_to_wgs84(Globals, g[1], g[2]))

SpecThreads == Init /\ [][NextThreads]_vars

(***************************************************************************)
(* The properties.                                                         *)
(***************************************************************************)
\* The calls of the two transforms.
Transforms == {"geodeticToGrid", "gridToGeodetic"}

\* C1: on a transformer constructed from a name outside the enumerated set, every
\* call of geodeticToGrid and of gridToGeodetic, whatever its arguments and however
\* many calls came before, returns None (the report of Uninitialized): never a
\* pair, computed or of zeros, and never an arithmetic error.
C1_UninitializedReported ==
    (conv # None /\ projectionName \notin EnumeratedNames /\ last.op \in Transforms)
        => last.ret = None

\* A transform was called on a transformer made from a name that differs from an
\* enumerated one in case only, and returned None.
C1_Witness ==
    /\ conv # None
    /\ projectionName = "SWEREF_99_TM"
    /\ last.op = "gridToGeodetic"
    /\ last.args \in FixedGridInputs
    /\ last.ret = None

C3_InitializedIffEnumerated ==
    conv # None => (conv[1]._initialized <=> projectionName \in EnumeratedNames)

\* A transformer made from an enumerated name followed by a blank is uninitialized.
C3_Witness ==
    /\ conv # None
    /\ projectionName = "sweref_99_tm "
    /\ last.op = "__init__"
    /\ ~conv[1]._initialized

\* 1e-6 degrees.
Tolerance == Dec(0, 0, 0, 100, 0)

\* ret is a pair within 1e-6 degrees of pt in each component.
Within(ret, pt) ==
    /\ Len(ret) = 2
    /\ LessEq(Abs(Sub(ret[1], pt[1])), Tolerance)
    /\ LessEq(Abs(Sub(ret[2], pt[2])), Tolerance)

\* The sample points that geodeticToGrid of conv maps to the arguments of the last call.
Preimages == {pt \in GeoInputs : geodeticToGrid(conv[1], pt[1], pt[2]) = last.args}

\* C4: for every enumerated name and every point with latitude 55..69 and longitude
\* 10..24, gridToGeodetic of what geodeticToGrid returned for the point, on the same
\* transformer, is within 1e-6 degrees of the point in each component.
C4_RoundTrip ==
    (conv # None /\ projectionName \in EnumeratedNames /\ last.op = "gridToGeodetic")
        => \A pt \in Preimages : Within(last.ret, pt)

\* gridToGeodetic of an RT90 transformer was called with the grid pair of the sample
\* point (62, 17) and returned a pair within the tolerance of it.
C4_Witness ==
    /\ conv # None
    /\ projectionName = "rt90_2.5_gon_v"
    /\ last.op = "gridToGeodetic"
    /\ <<Num(62), Num(17)>> \in Preimages
    /\ Within(last.ret, <<Num(62), Num(17)>>)

\* C5: the cache of converters is initialized at most once per key: under any
\* interleaving of concurrent first calls of the six convenience functions at most
\* one converter is constructed and assigned to each of the two globals.
C5_AtMostOncePerKey ==
    /\ constructed.rt90_converter <= 1
    /\ constructed.sweref99tm_converter <= 1

\* C6: every call of geodeticToGrid or gridToGeodetic, on an initialized or an
\* uninitialized transformer, leaves the flag, the projection parameters and all
\* series coefficients of the transformer as they were.
C6_TransformsLeaveObject ==
    [][last'.op \in Transforms => conv' = conv]_vars

\* After a call of geodeticToGrid that returned a pair, the transformer still is the
\* object that construction from its name produces.
C6_Witness ==
    /\ conv # None
    /\ projectionName = "sweref_99_tm"
    /\ last.op = "geodeticToGrid"
    /\ Len(last.ret) = 2
    /\ conv[1]._initialized
    /\ conv[1] = SwedishGeoPositionConverter(projectionName)

\* The names of the claims' families.
BesselNames ==
    {"bessel_rt90_7.5_gon_v", "bessel_rt90_5.0_gon_v", "bessel_rt90_2.5_gon_v",
     "bessel_rt90_0.0_gon_v", "bessel_rt90_2.5_gon_o", "bessel_rt90_5.0_gon_o"}

\* name :> <<dd, mm>>, the degrees and minutes that the name ends with.
DdmmOfName ==
    [sweref_99_1200 |-> <<12, 0>>, sweref_99_1330 |-> <<13, 30>>,
     sweref_99_1500 |-> <<15, 0>>, sweref_99_1630 |-> <<16, 30>>,
     sweref_99_1800 |-> <<18, 0>>, sweref_99_1415 |-> <<14, 15>>,
     sweref_99_1545 |-> <<15, 45>>, sweref_99_1715 |-> <<17, 15>>,
     sweref_99_1845 |-> <<18, 45>>, sweref_99_2015 |-> <<20, 15>>,
     sweref_99_2145 |-> <<21, 45>>, sweref_99_2315 |-> <<23, 15>>]

DdmmNames == DOMAIN DdmmOfName

\* The object has the given scale, false northing and false easting.
HasOffsets(self, scale, north, east) ==
    /\ self._scale = scale
    /\ self._false_northing = north
    /\ self._false_easting = east

\* C7: each bessel_rt90_* name has scale 1.0, false northing 0.0 and false easting
\* 1500000.0; each sweref_99_ddmm name has 1.0, 0.0 and 150000.0; sweref_99_tm
\* alone has 0.9996, 0.0 and 500000.0.
C7_PresetOffsets ==
    conv # None =>
        /\ projectionName \in BesselNames
              => HasOffsets(conv[1], One, Zero, Dec(150, 0, 0, 0, 0))
        /\ projectionName \in DdmmNames
              => HasOffsets(conv[1], One, Zero, Dec(15, 0, 0, 0, 0))
        /\ projectionName = "sweref_99_tm"
              => HasOffsets(conv[1], Dec(0, 0, 9996, 0, 0), Zero, Dec(50, 0, 0, 0, 0))
        /\ HasOffsets(conv[1], Dec(0, 0, 9996, 0, 0), Zero, Dec(50, 0, 0, 0, 0))
              => projectionName = "sweref_99_tm"

\* A transformer made from sweref_99_1330 has the offsets of the preset.
C7_Witness ==
    /\ conv # None
    /\ projectionName = "sweref_99_1330"
    /\ conv[1]._initialized
    /\ HasOffsets(conv[1], One, Zero, Dec(15, 0, 0, 0, 0))

\* C8: for each of the 26 enumerated names the transformer has axis > 0,
\* 0 < flattening < 1 and scale > 0, and scale * aRoof, the divisor of
\* gridToGeodetic, is not zero, so no call of it ends in a division by zero.
C8_PositiveParameters ==
    (conv # None /\ projectionName \in EnumeratedNames) =>
        /\ Less(Zero, conv[1]._axis)
        /\ Less(Zero, conv[1]._flattening)
        /\ Less(conv[1]._flattening, One)
        /\ Less(Zero, conv[1]._scale)
        /\ ~IsZero(Mul(conv[1]._scale, conv[1]._a_roof))
        /\ last.op = "gridToGeodetic" => Len(last.ret) = 2

\* gridToGeodetic of an RT90 transformer on the GRS 80 ellipsoid divided by a
\* non-zero scale * aRoof and returned a pair.
C8_Witness ==
    /\ conv # None
    /\ projectionName = "rt90_7.5_gon_v"
    /\ last.op = "gridToGeodetic"
    /\ Len(last.ret) = 2
    /\ Less(Zero, Mul(conv[1]._scale, conv[1]._a_roof))

\* The two primitives composed over fresh transformers of the projections from and to.
Composed(from, to, g) ==
    ThenGeodeticToGrid(SwedishGeoPositionConverter(to),
                       gridToGeodetic(SwedishGeoPositionConverter(from), g[1], g[2]))

\* C9: whatever calls came before and whether or not the cached converters existed,
\* rt90_to_sweref99tm and sweref99tm_to_rt90 return gridToGeodetic of the one
\* projection followed by geodeticToGrid of the other, and each of the four WGS84
\* functions returns the one primitive of the projection in its name.
C9_ConvenienceIsComposition ==
    /\ last.op = "rt90_to_sweref99tm"
          => last.ret = Composed("rt90_2.5_gon_v", "sweref_99_tm", last.args)
    /\ last.op = "sweref99tm_to_rt90"
          => last.ret = Composed("sweref_99_tm", "rt90_2.5_gon_v", last.args)
    /\ last.op = "wgs84_to_rt90"
          => last.ret = geodeticToGrid(SwedishGeoPositionConverter("rt90_2.5_gon_v"),
                                       last.args[1], last.args[2])
    /\ last.op = "rt90_to_wgs84"
          => last.ret = gridToGeodetic(SwedishGeoPositionConverter("rt90_2.5_gon_v"),
                                       last.args[1], last.args[2])
    /\ last.op = "wgs84_to_sweref99tm"
          => last.ret = geodeticToGrid(SwedishGeoPositionConverter("sweref_99_tm"),
                                       last.args[1], last.args[2])
    /\ last.op = "sweref99tm_to_wgs84"
          => last.ret = gridToGeodetic(SwedishGeoPositionConverter("sweref_99_tm"),
                                       last.args[1], last.args[2])

\* wgs84_to_sweref99tm was called when both converters were cached already and
\* returned the grid pair of the SWEREF 99 TM primitive.
C9_Witness ==
    /\ last.op = "wgs84_to_sweref99tm"
    /\ rt90_converter # None
    /\ sweref99tm_converter # None
    /\ Len(last.ret) = 2
    /\ last.ret = geodeticToGrid(SwedishGeoPositionConverter("sweref_99_tm"),
                                 last.args[1], last.args[2])

\* dd + mm/60 degrees.
DegreesMinutes(d) == Add(Num(d[1]), DivInt(Num(d[2]), 60))

\* C10: the central meridian of each sweref_99_ddmm name is dd + mm/60 degrees (12.00,
\* 13.50, 15.00, 16.50, 18.00 and 14.25, 15.75, 17.25, 18.75, 20.25, 21.75, 23.25),
\* and no two of the 12 names share a central meridian.
C10_MeridianFromName ==
    (conv # None /\ projectionName \in DdmmNames) =>
        /\ conv[1]._central_meridian = DegreesMinutes(DdmmOfName[projectionName])
        /\ \A other \in DdmmNames \ {projectionName} :
              SwedishGeoPositionConverter(other)._central_meridian
                  # conv[1]._central_meridian

\* A transformer made from sweref_99_1330 has the central meridian 13.5.
C10_Witness ==
    /\ conv # None
    /\ projectionName = "sweref_99_1330"
    /\ conv[1]._central_meridian = Dec(0, 13, 5000, 0, 0)

\* The global is None or an initialized converter of the projection.
NoneOrConverter(global, projection) ==
    \/ global = None
    \/ /\ global = <<SwedishGeoPositionConverter(projection)>>
       /\ global[1]._initialized

\* C11: in sequential execution, after any sequence of calls of the six convenience
\* functions rt90_converter is None or an initialized converter for rt90_2.5_gon_v
\* and sweref99tm_converter is None or an initialized converter for sweref_99_tm; a
\* function creates only the converters it uses, and a global that holds a
\* converter is never reset to None nor given another object.
C11_GlobalsOnlyGrow ==
    /\ [](/\ NoneOrConverter(rt90_converter, "rt90_2.5_gon_v")
          /\ NoneOrConverter(sweref99tm_converter, "sweref_99_tm"))
    /\ [][/\ rt90_converter # None => rt90_converter' = rt90_converter
          /\ sweref99tm_converter # None => sweref99tm_converter' = sweref99tm_converter
          /\ last'.op \in {"wgs84_to_rt90", "rt90_to_wgs84"}
                => sweref99tm_converter' = sweref99tm_converter
          /\ last'.op \in {"wgs84_to_sweref99tm", "sweref99tm_to_wgs84"}
                => rt90_converter' = rt90_converter
          /\ last'.op \notin {"rt90_to_sweref99tm", "sweref99tm_to_rt90", "wgs84_to_rt90",
                              "rt90_to_wgs84", "wgs84_to_sweref99tm", "sweref99tm_to_wgs84"}
                => UNCHANGED <<rt90_converter, sweref99tm_converter>>]_vars

\* wgs84_to_rt90 was called: the RT90 converter exists and the SWEREF 99 TM
\* converter, which the function does not use, was not created.
C11_Witness ==
    /\ last.op = "wgs84_to_rt90"
    /\ rt90_converter = <<SwedishGeoPositionConverter("rt90_2.5_gon_v")>>
    /\ rt90_converter[1]._initialized
    /\ sweref99tm_converter = None

====
